---- MODULE Spec2Model ----
(***************************************************************************)
(* Model of the satrack App component in its two versions:                 *)
(*   "sampled"  - src/unnamed/part_000: a [tleData] effect binds the       *)
(*                Cesium clock and builds one SampledPositionProperty of   *)
(*                four hourly samples per element set;                     *)
(*   "interval" - src/src/App.tsx: a setInterval callback, re-registered   *)
(*                by an effect after every render, propagates every        *)
(*                element set at the current wall-clock time.              *)
(* Times are integer seconds.  React is modelled by its commit protocol:   *)
(* a state update marks the component dirty, a render captures the         *)
(* closure (start, tleData, ...) and schedules the passive effects, and    *)
(* the effects run before the next render, reading that closure.           *)
(***************************************************************************)
EXTENDS Integers, Sequences, FiniteSets, TLC

\* ---------------------------------------------------------------- bounds
\* wall-clock steps a behaviour may take
MaxTicks == 4
\* element-set collections the data source delivers in one behaviour
MaxVersion == 2
\* element sets per collection
MaxSats == 2

\* ------------------------------------------------------- program constants
\* for (let i = 0; i < 4; i++)
SampleCount == 4
\* JulianDate.addHours: seconds per hour
Hour == 3600
\* positionGd.height * 1000
KmToM == 1000

\* granularity of the modelled wall clock: one hour
Quantum == Hour
MaxNow == MaxTicks * Quantum

VARIABLES
  app,                \* which version of App runs: "sampled" or "interval"
  now,                \* wall clock, new Date()
  cachedTleData,      \* interval: useQuery's data
  tleData,            \* sampled: useQuery's data; interval: useState
  satelliteEntities,  \* sampled: useState, the published set
  satellites,         \* interval: useState, the published set
  r,                  \* closure of the last committed render
  dirty,              \* a state update awaits a render
  effectPending,      \* the last render's passive effects have not run
  viewerReady,        \* viewerRef.current.cesiumElement is set
  clock,              \* viewer.clock
  timers,             \* interval: live setInterval registrations
  positionInterval,   \* interval: the registration of the last effect run
  built,              \* history: input of the run that last published
  builds              \* history: inputs of all runs of the sampled version

vars == <<app, now, cachedTleData, tleData, satelliteEntities, satellites, r,
          dirty, effectPending, viewerReady, clock, timers,
          positionInterval, built, builds>>

\* ------------------------------------------------------------ element sets
Names == <<"SAT-1", "SAT-2", "SAT-3", "SAT-4">>
\* orbit altitude in km carried by line1
Altitudes == <<400, 20200, 35786, 800>>
\* line2 carries the hours (mod SampleCount) at which propagation fails
FailPatterns == {{}, {0}, {0, 1, 2, 3}}

Min(a, b) == IF a < b THEN a ELSE b

\* interface TleData { name; line1; line2 }
TleRecord(i, f) == [name |-> Names[i], line1 |-> Altitudes[i], line2 |-> f]

\* the collections the element-set source can deliver (response.data)
TleCollections ==
  UNION {[1..n -> FailPatterns] : n \in 0..Min(MaxSats, Len(Names))}

\* the same with every subset of the four sample hours failing
AllFailPatterns == SUBSET (0..(SampleCount - 1))
AllTleCollections ==
  UNION {[1..n -> AllFailPatterns] : n \in 0..Min(MaxSats, Len(Names))}

MkCollection(fs) == [i \in DOMAIN fs |-> TleRecord(i, fs[i])]

\* useQuery's data before the first response
Undefined == [defined |-> FALSE, ver |-> 0, sats |-> <<>>]
\* useState<TleData[]>([])
EmptyTleData == [defined |-> TRUE, ver |-> 0, sats |-> <<>>]

\* ------------------------------------------------------------- JulianDate
\* Cesium keeps an instant as a whole day number and the seconds into it.
SecondsPerDay == 24 * Hour

\* setComponents: carry whole days out of secondsOfDay
Normalise(day, sec) ==
  [dayNumber |-> day + (sec \div SecondsPerDay),
   secondsOfDay |-> sec % SecondsPerDay]

\* JulianDate.fromDate(date), date in seconds since the epoch
FromDate(date) == Normalise(0, date)

\* JulianDate.toDate(julianDate)
ToDate(jd) == jd.dayNumber * SecondsPerDay + jd.secondsOfDay

\* JulianDate.addSeconds(julianDate, seconds, result)
AddSeconds(jd, seconds) == Normalise(jd.dayNumber, jd.secondsOfDay + seconds)

\* JulianDate.addHours(julianDate, hours, result)
AddHours(jd, hours) == AddSeconds(jd, hours * Hour)

\* JulianDate.compare(left, right) < 0
Before(a, b) ==
  \/ a.dayNumber < b.dayNumber
  \/ a.dayNumber = b.dayNumber /\ a.secondsOfDay < b.secondsOfDay

\* ---------------------------------------------------------- satellite.js
\* Angles are counted in units of pi/12 radians, so that degrees are exact.
DegreesPerUnit == 180 \div 12

\* twoline2satrec(line1, line2)
twoline2satrec(line1, line2) == [alt |-> line1, fail |-> line2]

\* propagate(satrec, date).position: false when the propagation fails,
\* otherwise the inertial position (an angle in the orbit plane, an
\* elevation and the altitude in km)
propagate(satrec, date) ==
  IF ((date \div Hour) % SampleCount) \in satrec.fail
  THEN [object |-> FALSE]
  ELSE [object |-> TRUE,
        theta |-> ((date \div Quantum) + satrec.alt) % 24,
        phi |-> ((date \div Quantum) % 7) - 3,
        km |-> satrec.alt]

\* gstime(date): the Earth's rotation angle at that instant
gstime(date) == (date \div Quantum) % 24

\* eciToGeodetic(positionEci, gmst): radians and kilometres
eciToGeodetic(positionEci, gmst) ==
  [longitude |-> ((positionEci.theta - gmst + 36) % 24) - 12,
   latitude |-> positionEci.phi,
   height |-> positionEci.km]

\* degreesLong(radians), degreesLat(radians)
degreesLong(radians) == radians * DegreesPerUnit
degreesLat(radians) == radians * DegreesPerUnit

\* ---------------------------------------------------------------- Cesium
\* Cartesian3.fromDegrees(longitude, latitude, height): the point is kept
\* by the geodetic coordinates (degrees, metres) that determine it
FromDegrees(longitude, latitude, height) ==
  [longitude |-> longitude, latitude |-> latitude, height |-> height]

\* a faulty variant that stores kilometres: the conversion is dropped
HeightMetresNoScale(km) == km

\* positionGd.height * 1000
HeightMetres(km) == km * KmToM

\* new SampledPositionProperty(): no samples
NewSampledPositionProperty == <<>>

InsertAt(samples, k, s) ==
  SubSeq(samples, 1, k - 1) \o <<s>> \o SubSeq(samples, k, Len(samples))

\* a faulty variant that adds in front, whatever the sample's time
AddSamplePrepend(samples, time, position) ==
  <<[time |-> time, position |-> position]>> \o samples

\* positionProperty.addSample(time, position): samples stay ordered by
\* time, and a sample at a time already present replaces the old one
AddSample(samples, time, position) ==
  LET s == [time |-> time, position |-> position]
      earlier == {k \in 1..Len(samples) : Before(samples[k].time, time)}
      same == {k \in 1..Len(samples) : samples[k].time = time}
  IN  IF same # {}
      THEN [k \in 1..Len(samples) |-> IF k \in same THEN s ELSE samples[k]]
      ELSE InsertAt(samples, Cardinality(earlier) + 1, s)

\* the value of one sample, part_000 lines 136-146: none when propagation
\* returns no position object
SamplePosition(satrec, time) ==
  LET jsDate == ToDate(time)
      positionEci == propagate(satrec, jsDate)
  IN  IF positionEci.object
      THEN LET positionGd == eciToGeodetic(positionEci, gstime(jsDate))
           IN  [some |-> TRUE,
                position |-> FromDegrees(degreesLong(positionGd.longitude),
                                         degreesLat(positionGd.latitude),
                                         HeightMetres(positionGd.height))]
      ELSE [some |-> FALSE]

\* for (let i = 0; i < 4; i++) { ... addSample(time, position) }, from
\* iteration i on, with the samples added so far; the samples after an
\* iteration are bound as a value before the next iteration reads them
RECURSIVE SampleLoop(_, _, _, _)
SampleLoop(satrec, start, i, samples) ==
  IF i < SampleCount
  THEN LET time == AddHours(start, i)
           p == SamplePosition(satrec, time)
       IN  CHOOSE result \in
             {SampleLoop(satrec, start, i + 1, after) :
                after \in {IF p.some
                           THEN AddSample(samples, time, p.position)
                           ELSE samples}} : TRUE
  ELSE samples

\* tleData.map(({ name, line1, line2 }) => ({ name, position }))
Entities(sats, start) ==
  [k \in 1..Len(sats) |->
     [name |-> sats[k].name,
      position |-> SampleLoop(twoline2satrec(sats[k].line1, sats[k].line2),
                              start, 0, NewSampledPositionProperty)]]

\* a faulty variant that keeps the entries already published and adds
\* the new ones to them
SetSatelliteEntitiesInPlace(prev, entities) == prev \o entities

\* setSatelliteEntities(entities): the state becomes the new array
SetSatelliteEntities(prev, entities) == entities

\* SampledPositionProperty.getValue(time) with the extrapolation types the
\* constructor leaves at their default, ExtrapolationType.NONE: a sample's
\* own position at a sample time, an interpolation between the bracketing
\* samples inside the window, and no value outside it
GetValue(samples, time) ==
  LET n == Len(samples)
      same == {k \in 1..n : samples[k].time = time}
      index == Cardinality({k \in 1..n : Before(samples[k].time, time)})
  IN  IF n = 0 THEN [kind |-> "undefined"]
      ELSE IF same # {}
      THEN [kind |-> "sample", position |-> samples[CHOOSE k \in same : TRUE].position]
      ELSE IF index = 0 THEN [kind |-> "undefined"]
      ELSE IF index >= n THEN [kind |-> "undefined"]
      ELSE [kind |-> "interpolated",
            from |-> samples[index].position,
            to |-> samples[index + 1].position]

\* ----------------------------------------------- interval version helpers
\* one element set at the instant of the callback, App.tsx lines 93-116:
\* null when propagation returns no position object
SatelliteAt(tle, date) ==
  LET satrec == twoline2satrec(tle.line1, tle.line2)
      positionEci == propagate(satrec, date)
  IN  IF positionEci.object
      THEN LET positionGd == eciToGeodetic(positionEci, gstime(date))
           IN  [isNull |-> FALSE,
                name |-> tle.name,
                position |-> [longitude |-> degreesLong(positionGd.longitude),
                              latitude |-> degreesLat(positionGd.latitude),
                              altitude |-> HeightMetres(positionGd.height)]]
      ELSE [isNull |-> TRUE]

\* .filter((satellite) => satellite !== null), from index k on
RECURSIVE FilterNonNull(_, _)
FilterNonNull(mapped, k) ==
  IF k > Len(mapped) THEN <<>>
  ELSE IF mapped[k].isNull THEN FilterNonNull(mapped, k + 1)
  ELSE <<[name |-> mapped[k].name, position |-> mapped[k].position]>>
       \o FilterNonNull(mapped, k + 1)

\* tleData.map(...).filter(...)
UpdatedSatellites(sats, date) ==
  FilterNonNull([k \in 1..Len(sats) |-> SatelliteAt(sats[k], date)], 1)

\* a faulty variant that leaves the old registration running
ClearIntervalNoop(live, id) == live

\* clearInterval(positionInterval)
ClearInterval(live, id) == live \ {id}

\* ------------------------------------------------------------------ state
\* the wall clock when the component mounts: late in a day, so that a
\* sampling window crosses midnight
InitialNow == 22 * Hour

NoClock ==
  [startTime |-> FromDate(0), currentTime |-> FromDate(0), lastSystemTime |-> 0]
NoInterval == [tleData |-> Undefined]
NoBuild == [ran |-> FALSE, tle |-> Undefined, start |-> FromDate(0)]

\* the state once the component has rendered for the first time and its
\* effects are scheduled
InitCommon ==
  /\ now = InitialNow
  /\ cachedTleData = Undefined
  /\ satelliteEntities = <<>>
  /\ satellites = <<>>
  /\ dirty = FALSE
  /\ effectPending = TRUE
  /\ viewerReady = FALSE
  /\ clock = NoClock
  /\ timers = {}
  /\ positionInterval = NoInterval
  /\ built = NoBuild
  /\ builds = {}

InitSampled ==
  /\ app = "sampled"
  /\ tleData = Undefined
  /\ r = [start |-> FromDate(InitialNow), tleData |-> Undefined,
          cached |-> Undefined, depsChanged |-> TRUE, entities |-> <<>>]
  /\ InitCommon

InitInterval ==
  /\ app = "interval"
  /\ tleData = EmptyTleData
  /\ r = [start |-> FromDate(InitialNow), tleData |-> EmptyTleData,
          cached |-> Undefined, depsChanged |-> TRUE, entities |-> <<>>]
  /\ InitCommon

Init == InitSampled \/ InitInterval

\* ----------------------------------------------------------- environment
\* the wall clock advances
Advance ==
  /\ now + Quantum <= InitialNow + MaxNow
  /\ now' = now + Quantum
  /\ UNCHANGED <<app, cachedTleData, tleData, satelliteEntities, satellites,
                 r, dirty, effectPending, viewerReady, clock, timers,
                 positionInterval, built, builds>>

\* resium creates the Cesium viewer: cesiumElement is set and its clock
\* starts at the current wall-clock time
ViewerMount ==
  /\ app = "sampled"
  /\ ~viewerReady
  /\ viewerReady' = TRUE
  /\ clock' = [startTime |-> FromDate(now), currentTime |-> FromDate(now),
               lastSystemTime |-> now]
  /\ UNCHANGED <<app, now, cachedTleData, tleData, satelliteEntities,
                 satellites, r, dirty, effectPending, timers,
                 positionInterval, built, builds>>

\* the position a frame draws for the k-th Entity of the last render:
\* position={satEntity.position} evaluated at the clock's current time
Drawn(k) == GetValue(r.entities[k].position, clock.currentTime)

\* one Cesium frame: the clock advances by the wall-clock time since the
\* last frame (multiplier 1)
Tick ==
  /\ app = "sampled"
  /\ viewerReady
  /\ clock' = [clock EXCEPT
                 !.currentTime = AddSeconds(@, now - clock.lastSystemTime),
                 !.lastSystemTime = now]
  /\ UNCHANGED <<app, now, cachedTleData, tleData, satelliteEntities,
                 satellites, r, dirty, effectPending, viewerReady, timers,
                 positionInterval, built, builds>>

\* ------------------------------------------------------- sampled version
\* useQuery delivers a new collection: tleData changes
QueryResolveSampled ==
  /\ app = "sampled"
  /\ tleData.ver < MaxVersion
  /\ \E fs \in TleCollections :
       tleData' = [defined |-> TRUE, ver |-> tleData.ver + 1,
                   sats |-> MkCollection(fs)]
  /\ dirty' = TRUE
  /\ UNCHANGED <<app, now, cachedTleData, satelliteEntities, satellites, r,
                 effectPending, viewerReady, clock, timers,
                 positionInterval, built, builds>>

\* App() runs again: start is recomputed, and the [tleData] effect is
\* scheduled when tleData is not the object of the previous render
RenderSampled ==
  /\ app = "sampled"
  /\ dirty
  /\ ~effectPending
  /\ r' = [start |-> FromDate(now), tleData |-> tleData, cached |-> r.cached,
           depsChanged |-> (tleData # r.tleData),
           entities |-> satelliteEntities]
  /\ effectPending' = (tleData # r.tleData)
  /\ dirty' = FALSE
  /\ UNCHANGED <<app, now, cachedTleData, tleData, satelliteEntities,
                 satellites, viewerReady, clock, timers,
                 positionInterval, built, builds>>

\* the effect of part_000 lines 162-173, calculateSatellitePositions
\* (lines 124-160) included
RefreshEffect ==
  /\ app = "sampled"
  /\ effectPending
  /\ effectPending' = FALSE
  /\ IF ~viewerReady
     THEN UNCHANGED <<clock, satelliteEntities, dirty, built, builds>>
     ELSE /\ clock' = [clock EXCEPT !.startTime = r.start,
                                    !.currentTime = r.start]
          /\ IF ~r.tleData.defined
             THEN UNCHANGED <<satelliteEntities, dirty, built, builds>>
             ELSE /\ satelliteEntities' =
                       SetSatelliteEntities(satelliteEntities,
                                            Entities(r.tleData.sats, r.start))
                  /\ dirty' = TRUE
                  /\ built' = [ran |-> TRUE, tle |-> r.tleData,
                               start |-> r.start]
                  /\ builds' = builds \cup
                                 {[tle |-> r.tleData, start |-> r.start]}
  /\ UNCHANGED <<app, now, cachedTleData, tleData, satellites, r,
                 viewerReady, timers, positionInterval>>

\* ------------------------------------------------------ interval version
\* useQuery delivers a new collection: cachedTleData changes, status is
\* "success"
QueryResolveInterval ==
  /\ app = "interval"
  /\ cachedTleData.ver < MaxVersion
  /\ \E fs \in TleCollections :
       cachedTleData' = [defined |-> TRUE, ver |-> cachedTleData.ver + 1,
                         sats |-> MkCollection(fs)]
  /\ dirty' = TRUE
  /\ UNCHANGED <<app, now, tleData, satelliteEntities, satellites, r,
                 effectPending, viewerReady, clock, timers,
                 positionInterval, built, builds>>

\* App() runs again; both effects are scheduled, the first one subject to
\* its dependencies [cachedTleData, tleDataStatus]
RenderInterval ==
  /\ app = "interval"
  /\ dirty
  /\ ~effectPending
  /\ r' = [start |-> r.start, tleData |-> tleData, cached |-> cachedTleData,
           depsChanged |-> (cachedTleData # r.cached),
           entities |-> satellites]
  /\ effectPending' = TRUE
  /\ dirty' = FALSE
  /\ UNCHANGED <<app, now, cachedTleData, tleData, satelliteEntities,
                 satellites, viewerReady, clock, timers,
                 positionInterval, built, builds>>

\* the passive effects of one commit, App.tsx lines 87-89 and 124-128: the
\* previous registration is cleared, setTleData runs when the query data
\* changed, and the interval is registered with this render's callback
IntervalEffects ==
  /\ app = "interval"
  /\ effectPending
  /\ effectPending' = FALSE
  /\ tleData' = IF r.depsChanged /\ r.cached.defined THEN r.cached
                ELSE tleData
  /\ dirty' = (dirty \/ tleData' # tleData)
  /\ positionInterval' = [tleData |-> r.tleData]
  /\ timers' = ClearInterval(timers, positionInterval)
                 \cup {[tleData |-> r.tleData]}
  /\ UNCHANGED <<app, now, cachedTleData, satelliteEntities, satellites, r,
                 viewerReady, clock, built, builds>>

\* a live interval fires: calculateSatellitePositions of the render that
\* registered it, App.tsx lines 91-121
IntervalTick ==
  /\ app = "interval"
  /\ \E c \in timers :
       /\ satellites' = UpdatedSatellites(c.tleData.sats, now)
       /\ built' = [ran |-> TRUE, tle |-> c.tleData, start |-> FromDate(now)]
  /\ dirty' = TRUE
  /\ UNCHANGED <<app, now, cachedTleData, tleData, satelliteEntities, r,
                 effectPending, viewerReady, clock, timers,
                 positionInterval, builds>>

\* ---------------------------------------------------------- specification
NextSampled ==
  \/ Advance
  \/ ViewerMount
  \/ Tick
  \/ QueryResolveSampled
  \/ RenderSampled
  \/ RefreshEffect

Next ==
  \/ NextSampled
  \/ QueryResolveInterval
  \/ RenderInterval
  \/ IntervalEffects
  \/ IntervalTick

Spec == Init /\ [][Next]_vars

\* the fairness React and the browser give: a scheduled render happens,
\* scheduled effects run, and the viewer is eventually created
FairSpec ==
  /\ InitSampled
  /\ [][NextSampled]_vars
  /\ WF_vars(RenderSampled)
  /\ WF_vars(RefreshEffect)
  /\ WF_vars(ViewerMount)

\* ------------------------------------------- one run, on every input
\* calculateSatellitePositions as a function of its inputs: the component
\* has rendered with some collection as tleData at some instant, the viewer
\* is there (sampled) or the interval is registered (interval), and the
\* run is about to happen
InitBuild ==
  /\ app \in {"sampled", "interval"}
  /\ now \in {InitialNow + k * Quantum : k \in 0..MaxTicks}
  /\ \E fs \in AllTleCollections :
       LET data == [defined |-> TRUE, ver |-> 1, sats |-> MkCollection(fs)]
           sampled == (app = "sampled")
       IN  /\ tleData = data
           /\ cachedTleData = (IF sampled THEN Undefined ELSE data)
           /\ r = [start |-> FromDate(IF sampled THEN now ELSE InitialNow),
                   tleData |-> data,
                   cached |-> (IF sampled THEN Undefined ELSE data),
                   depsChanged |-> sampled, entities |-> <<>>]
           /\ timers = (IF sampled THEN {} ELSE {[tleData |-> data]})
           /\ positionInterval =
                (IF sampled THEN NoInterval ELSE [tleData |-> data])
  /\ effectPending = (app = "sampled")
  /\ viewerReady = (app = "sampled")
  /\ clock = (IF app = "sampled"
              THEN [startTime |-> FromDate(now), currentTime |-> FromDate(now),
                    lastSystemTime |-> now]
              ELSE NoClock)
  /\ satelliteEntities = <<>>
  /\ satellites = <<>>
  /\ dirty = FALSE
  /\ built = NoBuild
  /\ builds = {}

NextBuild ==
  \/ RefreshEffect
  \/ IntervalTick

BuildSpec == InitBuild /\ [][NextBuild]_vars

\* ------------------------------------------------------------ properties
\* the set the render reads
Published == IF app = "sampled" THEN satelliteEntities ELSE satellites

\* the instants at which a run propagates an element set: four hourly
\* samples in the sampled version, the instant of the call in the other
SampleDates(start) ==
  IF app = "sampled"
  THEN {ToDate(start) + i * Hour : i \in 0..(SampleCount - 1)}
  ELSE {ToDate(start)}

\* propagation of tle fails at every instant of the run started at start
NoSample(tle, start) ==
  \A d \in SampleDates(start) :
    ~propagate(twoline2satrec(tle.line1, tle.line2), d).object

\* the run recorded in b obtained no sample at all
EmptyCycle(b) ==
  \A k \in 1..Len(b.tle.sats) : NoSample(b.tle.sats[k], b.start)

\* this step is a run of calculateSatellitePositions past its guard
CycleRan ==
  \/ app = "sampled" /\ effectPending /\ ~effectPending' /\ viewerReady
       /\ r.tleData.defined
  \/ app = "interval" /\ built' # built

\* C1: a refresh cycle over a collection with zero records, or in which no
\* object obtains a sample, leaves the published set as it was.
C1_EmptyCycleKeepsPublished ==
  [][CycleRan /\ EmptyCycle(built') => Published' = Published]_vars

\* C2: after every build, an element set whose propagation failed at every
\* sample instant has no entry in the published set, and every other
\* element set of the collection has exactly one.
C2_FailedOmittedOthersOnce ==
  built.ran =>
    \A k \in 1..Len(built.tle.sats) :
      LET tle == built.tle.sats[k]
          entries == {j \in 1..Len(Published) : Published[j].name = tle.name}
      IN  IF NoSample(tle, built.start)
          THEN entries = {}
          ELSE Cardinality(entries) = 1

\* x is the initial empty set or the whole result of one recorded run
IsCompleteBuild(x) ==
  \/ x = <<>>
  \/ \E b \in builds : x = Entities(b.tle.sats, b.start)

\* C3: the published set, and the set the last render holds, are each the
\* initial empty set or the complete result of exactly one run; the
\* published set is the result of the latest run.
C3_PublicationAtomic ==
  app = "sampled" =>
    /\ IsCompleteBuild(satelliteEntities)
    /\ IsCompleteBuild(r.entities)
    /\ ~built.ran => satelliteEntities = <<>>
    /\ built.ran =>
         satelliteEntities = Entities(built.tle.sats, built.start)

\* C3 witness: a second run has published two trajectories while the last
\* render still holds the different, non-empty result of an earlier run
C3_Witness ==
  /\ app = "sampled"
  /\ Cardinality(builds) >= 2
  /\ Len(satelliteEntities) = 2
  /\ r.entities # <<>>
  /\ r.entities # satelliteEntities

\* C4: for every trajectory with a sample that a frame draws, a query
\* before the first sample gives the first sample's position and a query
\* after the last sample gives the last sample's position.
C4_ClampingLaw ==
  (app = "sampled" /\ viewerReady) =>
    \A k \in 1..Len(r.entities) :
      LET s == r.entities[k].position
          t == clock.currentTime
      IN  Len(s) > 0 =>
            /\ Before(t, s[1].time) => Drawn(k) = GetValue(s, s[1].time)
            /\ Before(s[Len(s)].time, t) =>
                 Drawn(k) = GetValue(s, s[Len(s)].time)

C6_NonEmptyFromWindowStart ==
  (app = "sampled" /\ built.ran) =>
    \A k \in 1..Len(satelliteEntities) :
      LET s == satelliteEntities[k].position
      IN  Len(s) > 0 /\ s[1].time = built.start

\* C7: once a render sees a new non-empty collection, a set built from
\* that collection is eventually published.
C7_ReceivedEventuallyPublished ==
  \A v \in 1..MaxVersion :
    (r.tleData.ver = v /\ Len(r.tleData.sats) > 0)
      ~> (built.ran /\ built.tle.ver = v)

\* C8: the clock's current time never decreases.
C8_ClockMonotonic ==
  [][viewerReady => ~Before(clock'.currentTime, clock.currentTime)]_vars

\* C9: no publication is computed from a collection older than the one an
\* earlier publication was computed from.
C9_NoStaleAfterNewer ==
  [][built'.tle.ver >= built.tle.ver]_vars

\* C9 witness: in the interval version the second collection has been
\* published by the interval registered for it, the only one left
C9_Witness ==
  /\ app = "interval"
  /\ built.tle.ver = 2
  /\ timers = {[tleData |-> built.tle]}
  /\ Len(satellites) > 0

\* the coordinate the code must store for tle propagated at date
ExpectedCoordinate(tle, date) ==
  LET satrec == twoline2satrec(tle.line1, tle.line2)
      gd == eciToGeodetic(propagate(satrec, date), gstime(date))
  IN  [longitude |-> degreesLong(gd.longitude),
       latitude |-> degreesLat(gd.latitude),
       metres |-> gd.height * 1000]

\* C10: every stored coordinate has the geodetic height in km times 1000
\* as its height, and the longitude and latitude in degrees, unchanged.
C10_HeightInMetres ==
  built.ran =>
    IF app = "sampled"
    THEN \A k \in 1..Len(satelliteEntities) :
           LET s == satelliteEntities[k].position
           IN  \A i \in 1..Len(s) :
                 LET e == ExpectedCoordinate(built.tle.sats[k],
                                             ToDate(s[i].time))
                 IN  /\ s[i].position.height = e.metres
                     /\ s[i].position.longitude = e.longitude
                     /\ s[i].position.latitude = e.latitude
    ELSE \A j \in 1..Len(satellites) :
           \E k \in 1..Len(built.tle.sats) :
             LET e == ExpectedCoordinate(built.tle.sats[k],
                                         ToDate(built.start))
             IN  /\ built.tle.sats[k].name = satellites[j].name
                 /\ satellites[j].position.altitude = e.metres
                 /\ satellites[j].position.longitude = e.longitude
                 /\ satellites[j].position.latitude = e.latitude

\* C10 witness: a sample of the second element set, 20200 km up, is stored
\* 20 200 000 m up
C10_Witness ==
  /\ app = "sampled"
  /\ Len(satelliteEntities) = 2
  /\ Len(satelliteEntities[2].position) > 0
  /\ satelliteEntities[2].position[1].position.height = 20200000

====
